---------------------------- MODULE Spec2Model ----------------------------
(***************************************************************************)
(* sqlite-browser: a Flask application over one SQLite database file.     *)
(* The model follows src/sqlite_browser/sqlite_browser.py: the request    *)
(* life cycle (before_request, view function, teardown_request), the      *)
(* catalog helpers and every table-scoped view.  The database engine and  *)
(* the peewee/playhouse calls the views make are modelled by their effect *)
(* on the catalog (tables, columns, indexes, triggers) and on the rows.   *)
(***************************************************************************)
EXTENDS Integers, Sequences, FiniteSets, TLC

VARIABLES
    db,     \* the database file: catalog and rows
    conn,   \* dataset._database connection state: "closed" | "open"
    pc,     \* position in the request life cycle
    req,    \* the request being served
    resp,   \* the response of the view (status 500: an exception escaped)
    log,    \* what the request has asked of the engine, in order: [q, ok]
    pre,    \* db as it was when the request entered
    nreq,   \* number of requests received
    added   \* the column the last request added, and the columns before it

vars == <<db, conn, pc, req, resp, log, pre, nreq, added>>

-----------------------------------------------------------------------------
(* Bounds of the model *)

\* requests served in one behaviour
MaxRequests == 2
\* data rows in an uploaded import file
MaxFileRows == 2

(* Program constants *)

MAX_RESULT_SIZE == 1000
ROWS_PER_PAGE == 50

None == "None"

-----------------------------------------------------------------------------
(* Text helpers.  Identifiers are TLA+ strings; str.lower() and the        *)
(* code-point order used by sorted() are tabulated over the identifiers    *)
(* the model uses.                                                         *)

Lower(s) ==
    CASE s = "A" -> "a"
      [] s = "B" -> "b"
      [] s = "ID" -> "id"
      [] s = "CSV" -> "csv"
      [] s = "JSON" -> "json"
      [] OTHER -> s

\* index names of the model in ascending code-point order
SortedNames ==
    << "sqlite_autoindex_t_1", "t_a", "t_id", "t_id_a" >>

Pos(name) == CHOOSE i \in 1..Len(SortedNames) : SortedNames[i] = name

StrLess(a, b) == Pos(a) < Pos(b)

RECURSIVE Join(_, _)
\* sep.join(parts)
Join(parts, sep) ==
    IF Len(parts) = 0 THEN ""
    ELSE IF Len(parts) = 1 THEN parts[1]
    ELSE parts[1] \o sep \o Join(Tail(parts), sep)

Range(s) == {s[i] : i \in 1..Len(s)}

\* int(text) for the page numbers requests carry
int(text) == CASE text = "1" -> 1 [] text = "2" -> 2 [] text = "3" -> 3

RECURSIVE SeqOfSet(_)
SeqOfSet(S) ==
    IF S = {} THEN <<>>
    ELSE LET x == CHOOSE y \in S : TRUE IN <<x>> \o SeqOfSet(S \ {x})

Min(a, b) == IF a < b THEN a ELSE b

-----------------------------------------------------------------------------
(* The database.                                                           *)
(*   db.tables   : table name -> [columns, unique_cols, rows, virtual]     *)
(*                 columns are PRAGMA table_info rows in declaration order *)
(*                 unique_cols are the columns declared UNIQUE, each of    *)
(*                 which owns an implicit index without SQL                *)
(*   db.indexes  : the CREATE INDEX rows of sqlite_master                  *)
(*   db.triggers : the trigger rows of sqlite_master                       *)

InfoRow(name, type, notnull, pk) ==
    [name |-> name, type |-> type, notnull |-> notnull, pk |-> pk]

InitialTables ==
    [n \in {"t", "docs", "docs_content"} |->
        CASE n = "t" ->
               [columns |-> << InfoRow("id", "INTEGER", 1, 1),
                               InfoRow("a", "TEXT", 0, 0) >>,
                unique_cols |-> << "a" >>,
                rows |-> << 1 >>,
                virtual |-> FALSE]
          [] n = "docs" ->
               [columns |-> << InfoRow("content", "", 0, 0) >>,
                unique_cols |-> << >>,
                rows |-> << 1 >>,
                virtual |-> TRUE]
          [] n = "docs_content" ->
               [columns |-> << InfoRow("docid", "INTEGER", 0, 1),
                               InfoRow("c0content", "", 0, 0) >>,
                unique_cols |-> << >>,
                rows |-> << 1 >>,
                virtual |-> FALSE] ]

IndexRow(name, tbl, sql, columns, unique) ==
    [name |-> name, tbl_name |-> tbl, sql |-> sql,
     columns |-> columns, unique |-> unique]

InitialDb ==
    [tables |-> InitialTables,
     indexes |-> { IndexRow("t_id", "t", "CREATE INDEX", << "id" >>, FALSE) },
     triggers |-> { [name |-> "trg", tbl_name |-> "t", sql |-> "CREATE TRIGGER"] }]

Tables(d) == DOMAIN d.tables

\* SQLite compares identifiers without regard to case
HasColumn(d, table, name) ==
    \E i \in 1..Len(d.tables[table].columns) :
        Lower(d.tables[table].columns[i].name) = Lower(name)

DuplicateFree(names) ==
    \A i, j \in 1..Len(names) : Lower(names[i]) = Lower(names[j]) => i = j

Digit(i) == << "1", "2", "3" >>[i]

\* the implicit indexes of a table: one per UNIQUE column, no SQL recorded
ImplicitIndexes(d, table) ==
    { IndexRow("sqlite_autoindex_" \o table \o "_" \o Digit(i), table, None,
               << d.tables[table].unique_cols[i] >>, TRUE) :
        i \in 1..Len(d.tables[table].unique_cols) }

\* every index of the database: sqlite_master rows of type index
MasterIndexes(d) ==
    d.indexes \cup UNION { ImplicitIndexes(d, t) : t \in Tables(d) }

Suffixes == {"content", "docsize", "segdir", "segments", "stat"}

\* the shadow tables a virtual table owns
ShadowsOf(v) == { v \o "_" \o s : s \in Suffixes }

WithoutTables(d, names) ==
    [tables |-> [n \in Tables(d) \ names |-> d.tables[n]],
     indexes |-> { i \in d.indexes : i.tbl_name \notin names },
     triggers |-> { g \in d.triggers : g.tbl_name \notin names }]

WithTable(d, name, rec) ==
    [d EXCEPT !.tables = [n \in Tables(d) \cup {name} |->
                             IF n = name THEN rec ELSE d.tables[n]]]

-----------------------------------------------------------------------------
(* The engine: one SQL statement applied to the database.  Each operator   *)
(* yields [ok, db]: ok = FALSE is the engine raising an error, and the     *)
(* statement then changes nothing.                                         *)

Rejected(d) == [ok |-> FALSE, db |-> d]
Done(d) == [ok |-> TRUE, db |-> d]

DropTableIfExists(d, q) == Done(WithoutTables(d, {q.table}))

CreateTable(d, q) ==
    IF \/ q.table \in Tables(d)
       \/ Len(q.columns) = 0
       \/ \E i \in 1..Len(q.columns) : q.columns[i].name = ""
       \/ ~DuplicateFree([i \in 1..Len(q.columns) |-> q.columns[i].name])
    THEN Rejected(d)
    ELSE Done(WithTable(d, q.table,
                        [columns |-> q.columns, unique_cols |-> q.unique_cols,
                         rows |-> << >>, virtual |-> FALSE]))

\* INSERT INTO table (...) SELECT ... FROM from
InsertSelect(d, q) ==
    IF q.table \notin Tables(d) \/ q.from \notin Tables(d)
    THEN Rejected(d)
    ELSE Done([d EXCEPT !.tables[q.table].rows = @ \o d.tables[q.from].rows])

\* dropping a virtual table destroys the shadow tables it owns
DropTable(d, q) ==
    IF q.table \notin Tables(d)
    THEN Rejected(d)
    ELSE Done(WithoutTables(d,
                {q.table} \cup (IF d.tables[q.table].virtual
                                THEN ShadowsOf(q.table) ELSE {})))

RenameTable(d, q) ==
    IF q.table \notin Tables(d) \/ q.to \in Tables(d)
    THEN Rejected(d)
    ELSE Done([tables |-> [n \in (Tables(d) \ {q.table}) \cup {q.to} |->
                              IF n = q.to THEN d.tables[q.table] ELSE d.tables[n]],
               indexes |-> { IF i.tbl_name = q.table
                             THEN [i EXCEPT !.tbl_name = q.to] ELSE i :
                             i \in d.indexes },
               triggers |-> { IF g.tbl_name = q.table
                              THEN [g EXCEPT !.tbl_name = q.to] ELSE g :
                              g \in d.triggers }])

AddColumn(d, q) ==
    IF \/ q.table \notin Tables(d)
       \/ d.tables[q.table].virtual
       \/ HasColumn(d, q.table, q.column.name)
    THEN Rejected(d)
    ELSE Done([d EXCEPT !.tables[q.table].columns = Append(@, q.column)])

CreateIndex(d, q) ==
    IF \/ q.table \notin Tables(d)
       \/ d.tables[q.table].virtual
       \/ \E i \in MasterIndexes(d) : i.name = q.name
       \/ \E i \in 1..Len(q.columns) : ~HasColumn(d, q.table, q.columns[i])
    THEN Rejected(d)
    ELSE Done([d EXCEPT !.indexes =
                 @ \cup {IndexRow(q.name, q.table, q.sql, q.columns, q.unique)}])

\* an index that backs a UNIQUE constraint cannot be dropped
DropIndex(d, q) ==
    IF \E i \in d.indexes : i.name = q.name
    THEN Done([d EXCEPT !.indexes = { i \in @ : i.name # q.name }])
    ELSE Rejected(d)

DropTrigger(d, q) ==
    IF \E g \in d.triggers : g.name = q.name
    THEN Done([d EXCEPT !.triggers = { g \in @ : g.name # q.name }])
    ELSE Rejected(d)

\* a row gets the next rowid; a row of a virtual table is stored in its
\* content shadow table as well
Insert(d, q) ==
    LET shadow == q.table \o "_content" IN
    IF \/ q.table \notin Tables(d)
       \/ q.row = "dup"
       \/ (d.tables[q.table].virtual /\ shadow \notin Tables(d))
    THEN Rejected(d)
    ELSE IF d.tables[q.table].virtual
    THEN Done([d EXCEPT !.tables[q.table].rows = Append(@, Len(@) + 1),
                        !.tables[shadow].rows = Append(@, Len(@) + 1)])
    ELSE Done([d EXCEPT !.tables[q.table].rows = Append(@, Len(@) + 1)])

Exec(d, q) ==
    CASE q.stmt = "DROP TABLE IF EXISTS" -> DropTableIfExists(d, q)
      [] q.stmt = "CREATE TABLE" -> CreateTable(d, q)
      [] q.stmt = "INSERT SELECT" -> InsertSelect(d, q)
      [] q.stmt = "DROP TABLE" -> DropTable(d, q)
      [] q.stmt = "ALTER TABLE RENAME" -> RenameTable(d, q)
      [] q.stmt = "ALTER TABLE ADD COLUMN" -> AddColumn(d, q)
      [] q.stmt = "CREATE INDEX" -> CreateIndex(d, q)
      [] q.stmt = "DROP INDEX" -> DropIndex(d, q)
      [] q.stmt = "DROP TRIGGER" -> DropTrigger(d, q)
      [] q.stmt = "INSERT" -> Insert(d, q)

RECURSIVE RunFrom(_, _, _, _)
\* The statements qs[i..] sent one after another, each committed as it
\* completes.  fault = k > 0 is the engine failing at statement k for a
\* reason outside the statement (database locked, I/O error); fault = 0 is
\* no such failure.  [ok, db, sent]: sent counts the statements attempted.
RunFrom(d, qs, i, fault) ==
    IF i > Len(qs) THEN [ok |-> TRUE, db |-> d, sent |-> Len(qs)]
    ELSE IF i = fault THEN [ok |-> FALSE, db |-> d, sent |-> i]
    ELSE LET r == Exec(d, qs[i]) IN
         IF r.ok THEN RunFrom(r.db, qs, i + 1, fault)
         ELSE [ok |-> FALSE, db |-> d, sent |-> i]

Faults(qs) == 0..Len(qs)

-----------------------------------------------------------------------------
(* Database helpers of the program, and the library calls the views make.  *)

RECURSIVE sorted_descending(_)
\* the names in descending order
sorted_descending(S) ==
    IF S = {} THEN <<>>
    ELSE LET m == CHOOSE x \in S : \A y \in S \ {x} : StrLess(y, x)
         IN  <<m>> \o sorted_descending(S \ {m})

RECURSIVE sorted(_)
\* sorted(names): ascending code-point order
sorted(S) ==
    IF S = {} THEN <<>>
    ELSE LET m == CHOOSE x \in S : \A y \in S \ {x} : StrLess(x, y)
         IN  <<m>> \o sorted(S \ {m})

\* PRAGMA index_list(table): rows (seq, name, unique)
PragmaIndexList(d, table) ==
    LET own == SeqOfSet({ i \in MasterIndexes(d) : i.tbl_name = table })
    IN  [k \in 1..Len(own) |-> << k - 1, own[k].name, IF own[k].unique THEN 1 ELSE 0 >>]

\* PRAGMA index_info(index): rows (seqno, cid, name), in index order
PragmaIndexInfo(d, index) ==
    LET i == CHOOSE x \in MasterIndexes(d) : x.name = index
    IN  [k \in 1..Len(i.columns) |-> << k - 1, k - 1, i.columns[k] >>]

IndexMetadata(name, sql, columns, unique) ==
    [name |-> name, sql |-> sql, columns |-> columns, unique |-> unique]

get_indexes(d, table) ==
    LET master == { i \in MasterIndexes(d) : i.tbl_name = table }
        index_to_sql == [n \in { i.name : i \in master } |->
                            (CHOOSE i \in master : i.name = n).sql]
        listing == PragmaIndexList(d, table)
        unique_indexes == { listing[k][2] : k \in { j \in 1..Len(listing) :
                                                      listing[j][3] # 0 } }
        index_columns == [n \in DOMAIN index_to_sql |->
                            LET info == PragmaIndexInfo(d, n)
                            IN  [k \in 1..Len(info) |-> info[k][3]]]
        names == sorted(DOMAIN index_to_sql)
    IN  [k \in 1..Len(names) |->
            IndexMetadata(names[k], index_to_sql[names[k]],
                          index_columns[names[k]],
                          names[k] \in unique_indexes)]

ColumnMetadata(name, data_type, null, primary_key) ==
    [name |-> name, data_type |-> data_type, null |-> null,
     primary_key |-> primary_key]

get_columns(d, table) ==
    LET info == IF table \in Tables(d) THEN d.tables[table].columns ELSE << >>
    IN  [k \in 1..Len(info) |->
            ColumnMetadata(info[k].name, info[k].type,
                           info[k].notnull = 0, info[k].pk)]

get_triggers(d, table) ==
    SeqOfSet({ [name |-> g.name, sql |-> g.sql] :
               g \in { x \in d.triggers : x.tbl_name = table } })

get_virtual_tables(d) == { n \in Tables(d) : d.tables[n].virtual }

get_corollary_virtual_tables(d) ==
    { virtual_table \o "_" \o suffix :
        suffix \in Suffixes, virtual_table \in get_virtual_tables(d) }

\* dataset.tables
dataset_tables(d) == Tables(d)

\* dataset[table]: the table is created when the database has none of
\* that name
dataset_getitem(d, table) ==
    IF table \in Tables(d) THEN d
    ELSE WithTable(d, table,
                   [columns |-> << InfoRow("id", "INTEGER", 1, 1) >>,
                    unique_cols |-> << >>, rows |-> << >>, virtual |-> FALSE])

\* migrate(...): the statements of the operation run in order, each in its
\* own implicit transaction; the outcomes the engine can produce
migrate(d, qs) == { RunFrom(d, qs, 1, fault) : fault \in Faults(qs) }

\* the declared type each add-column tag produces
column_mapping ==
    [tag \in {"VARCHAR", "TEXT", "INTEGER", "REAL", "BOOL", "BLOB",
              "DATETIME", "DATE", "TIME", "DECIMAL"} |->
        CASE tag = "VARCHAR" -> "VARCHAR(255)"
          [] tag = "BOOL" -> "SMALLINT"
          [] tag = "DECIMAL" -> "DECIMAL(10, 5)"
          [] OTHER -> tag]

migrator_add_column(table, name, type) ==
    << [stmt |-> "ALTER TABLE ADD COLUMN", table |-> table,
        column |-> InfoRow(name, type, 0, 0)] >>

\* the table rebuilt with column `name` renamed to `new_name`, or left out
\* when new_name is None: a temporary table is created and filled, the
\* original dropped, the temporary renamed, and the indexes that have SQL
\* re-created
UpdateColumn(d, table, name, new_name) ==
    LET t == d.tables[table]
        temp == table \o "__tmp__"
        New(n) == IF n = name THEN new_name ELSE n
        kept == SelectSeq(t.columns, LAMBDA c : New(c.name) # None)
        columns == [k \in 1..Len(kept) |-> [kept[k] EXCEPT !.name = New(@)]]
        keptu == SelectSeq(t.unique_cols, LAMBDA n : New(n) # None)
        unique_cols == [k \in 1..Len(keptu) |-> New(keptu[k])]
        indexes == SeqOfSet({ i \in d.indexes :
                                /\ i.tbl_name = table
                                /\ \A k \in 1..Len(i.columns) :
                                      New(i.columns[k]) # None })
    IN  << [stmt |-> "DROP TABLE IF EXISTS", table |-> temp],
           [stmt |-> "CREATE TABLE", table |-> temp, columns |-> columns,
            unique_cols |-> unique_cols],
           [stmt |-> "INSERT SELECT", table |-> temp, from |-> table],
           [stmt |-> "DROP TABLE", table |-> table],
           [stmt |-> "ALTER TABLE RENAME", table |-> temp, to |-> table] >>
        \o [k \in 1..Len(indexes) |->
              [stmt |-> "CREATE INDEX", name |-> indexes[k].name,
               table |-> table, sql |-> indexes[k].sql,
               unique |-> indexes[k].unique,
               columns |-> [j \in 1..Len(indexes[k].columns) |->
                               New(indexes[k].columns[j])]]]

\* a rebuild that keeps every column
migrator_drop_column_kept(d, table, name) ==
    UpdateColumn(d, table, name, name)

migrator_drop_column(d, table, name) ==
    UpdateColumn(d, table, name, None)

migrator_rename_column(d, table, old_name, new_name) ==
    UpdateColumn(d, table, old_name, new_name)

migrator_add_index(table, columns, unique) ==
    << [stmt |-> "CREATE INDEX", name |-> table \o "_" \o Join(columns, "_"),
        table |-> table, columns |-> columns, unique |-> unique,
        sql |-> IF unique THEN "CREATE UNIQUE INDEX" ELSE "CREATE INDEX"] >>

migrator_drop_index(table, name) ==
    << [stmt |-> "DROP INDEX", name |-> name] >>

-----------------------------------------------------------------------------
(* Responses.  status 500 is an exception that left the view function:     *)
(* Flask answers it with an internal server error.                         *)

\* what _general() adds to every rendered template
general(d) ==
    [tables |-> dataset_tables(d),
     virtual_tables |-> get_virtual_tables(d),
     virtual_tables_corollary |-> get_corollary_virtual_tables(d)]

render_template(d, template, flashed, ctx) ==
    [status |-> 200, flash |-> flashed, body |-> template, ctx |-> ctx,
     general |-> general(d)]

redirect(to, flashed) ==
    [status |-> 302, flash |-> flashed, body |-> to, ctx |-> << >>,
     general |-> << >>]

abort(code) ==
    [status |-> code, flash |-> None, body |-> None, ctx |-> << >>,
     general |-> << >>]

Raised == abort(500)

make_response(data, headers) ==
    [status |-> 200, flash |-> None, body |-> "attachment",
     ctx |-> [data |-> data, headers |-> headers], general |-> << >>]

NoResponse == abort(0)

Outcome(d, response, sent) == [db |-> d, resp |-> response, log |-> sent]

\* the first n of qs were sent; all succeeded, or all but the last
Sent(qs, n, ok) == [k \in 1..n |-> [q |-> qs[k], ok |-> ok \/ k < n]]

\* a decorator that runs the view whatever the table name
require_table_unchecked(d, table, view) == view

\* @require_table: the view runs only for a table of the database
require_table(d, table, view) ==
    IF table \notin dataset_tables(d)
    THEN { Outcome(d, abort(404), << >>) }
    ELSE view

-----------------------------------------------------------------------------
(* The views.  Each yields the set of outcomes [db, resp, log] the request *)
(* can have, one per way the engine can answer.                            *)

table_structure(d, r) ==
    LET d1 == dataset_getitem(d, r.table)
    IN  { Outcome(d1,
            render_template(d1, "table_structure.html", None,
                [columns |-> get_columns(d1, r.table),
                 indexes |-> get_indexes(d1, r.table),
                 triggers |-> get_triggers(d1, r.table)]),
            << >>) }

\* `qs` sent through migrate(): a redirect with a success message when all
\* of them ran, the engine's exception otherwise
Migrated(d, qs, to) ==
    { Outcome(m.db,
              IF m.ok THEN redirect(to, "success") ELSE Raised,
              Sent(qs, m.sent, m.ok)) : m \in migrate(d, qs) }

add_column(d, r) ==
    LET col_type == r.form.type
        name == r.form.name
        form == render_template(d, "add_column.html", None,
                    [col_type |-> col_type, name |-> name])
        invalid == render_template(d, "add_column.html", "danger",
                    [col_type |-> col_type, name |-> name])
    IN  IF r.method = "POST"
        THEN IF name # "" /\ col_type \in DOMAIN column_mapping
             THEN Migrated(d,
                     migrator_add_column(r.table, name, column_mapping[col_type]),
                     "table_structure")
             ELSE { Outcome(d, invalid, << >>) }
        ELSE { Outcome(d, form, << >>) }

\* drop-column without the check that the column exists
drop_column_unchecked(d, r) ==
    LET columns == get_columns(d, r.table)
    IN  IF r.method = "POST"
        THEN Migrated(d, migrator_drop_column(d, r.table, r.form.name),
                      "table_structure")
        ELSE { Outcome(d, render_template(d, "drop_column.html", None,
                                          [columns |-> columns]), << >>) }

drop_column(d, r) ==
    LET name == r.form.name
        columns == get_columns(d, r.table)
        column_names == [k \in 1..Len(columns) |-> columns[k].name]
        ctx == [columns |-> columns, column_names |-> column_names,
                name |-> name]
    IN  IF r.method = "POST"
        THEN IF name \in Range(column_names)
             THEN Migrated(d, migrator_drop_column(d, r.table, name),
                           "table_structure")
             ELSE { Outcome(d, render_template(d, "drop_column.html",
                                               "danger", ctx), << >>) }
        ELSE { Outcome(d, render_template(d, "drop_column.html", None, ctx),
                       << >>) }

rename_column(d, r) ==
    LET rename == r.form.rename
        rename_to == r.form.rename_to
        columns == get_columns(d, r.table)
        column_names == [k \in 1..Len(columns) |-> columns[k].name]
        ctx == [columns |-> columns, column_names |-> column_names,
                rename |-> rename, rename_to |-> rename_to]
    IN  IF r.method = "POST"
        THEN IF /\ rename \in Range(column_names)
                /\ rename_to \notin Range(column_names)
             THEN Migrated(d,
                     migrator_rename_column(d, r.table, rename, rename_to),
                     "table_structure")
             ELSE { Outcome(d, render_template(d, "rename_column.html",
                                               "danger", ctx), << >>) }
        ELSE { Outcome(d, render_template(d, "rename_column.html", None, ctx),
                       << >>) }

add_index(d, r) ==
    LET indexed_columns == r.form.indexed_columns
        unique == r.form.unique
        columns == get_columns(d, r.table)
        ctx == [columns |-> columns, indexed_columns |-> indexed_columns,
                unique |-> unique]
    IN  IF r.method = "POST"
        THEN IF Len(indexed_columns) > 0
             THEN Migrated(d,
                     migrator_add_index(r.table, indexed_columns, unique),
                     "table_structure")
             ELSE { Outcome(d, render_template(d, "add_index.html",
                                               "danger", ctx), << >>) }
        ELSE { Outcome(d, render_template(d, "add_index.html", None, ctx),
                       << >>) }

drop_index(d, r) ==
    LET name == r.form.name
        indexes == get_indexes(d, r.table)
        index_names == [k \in 1..Len(indexes) |-> indexes[k].name]
        ctx == [indexes |-> indexes, index_names |-> index_names,
                name |-> name]
    IN  IF r.method = "POST"
        THEN IF name \in Range(index_names)
             THEN Migrated(d, migrator_drop_index(r.table, name),
                           "table_structure")
             ELSE { Outcome(d, render_template(d, "drop_index.html",
                                               "danger", ctx), << >>) }
        ELSE { Outcome(d, render_template(d, "drop_index.html", None, ctx),
                       << >>) }

drop_trigger(d, r) ==
    LET name == r.form.name
        triggers == get_triggers(d, r.table)
        trigger_names == [k \in 1..Len(triggers) |-> triggers[k].name]
        ctx == [triggers |-> triggers, trigger_names |-> trigger_names,
                name |-> name]
    IN  IF r.method = "POST"
        THEN IF name \in Range(trigger_names)
             THEN Migrated(d, << [stmt |-> "DROP TRIGGER", name |-> name] >>,
                           "table_structure")
             ELSE { Outcome(d, render_template(d, "drop_trigger.html",
                                               "danger", ctx), << >>) }
        ELSE { Outcome(d, render_template(d, "drop_trigger.html", None, ctx),
                       << >>) }

drop_table(d, r) ==
    IF r.method = "POST"
    THEN Migrated(dataset_getitem(d, r.table),
                  << [stmt |-> "DROP TABLE", table |-> r.table] >>, "index")
    ELSE { Outcome(d, render_template(d, "drop_table.html", None, << >>),
                   << >>) }

table_content(d, r) ==
    LET page_number == IF r.form.page = None THEN 1 ELSE int(r.form.page)
        \* a missing previous or next page (None) is written 0
        previous_page == IF page_number > 1 THEN page_number - 1 ELSE 0
        d1 == dataset_getitem(d, r.table)
        rows == d1.tables[r.table].rows
        total_rows == Len(rows)
        total_pages == (total_rows + ROWS_PER_PAGE - 1) \div ROWS_PER_PAGE
        next_page == IF page_number < total_pages THEN page_number + 1 ELSE 0
        query == SubSeq(rows, (page_number - 1) * ROWS_PER_PAGE + 1,
                        Min(page_number * ROWS_PER_PAGE, total_rows))
    IN  { Outcome(d1,
            render_template(d1, "table_content.html", None,
                [page |-> page_number, previous_page |-> previous_page,
                 next_page |-> next_page, query |-> query,
                 total_rows |-> total_rows]),
            << >>) }

\* The engine's answer to caller-supplied SQL: the rows of the result, and
\* where it fails if it does: "execute" when the statement is prepared or
\* first stepped, "fetch" while later rows are stepped.
Cursor(d, table, sql) ==
    CASE sql.kind = "table" ->
           IF table \in Tables(d)
           THEN [error |-> None, rows |-> d.tables[table].rows]
           ELSE [error |-> "execute", rows |-> << >>]
      [] sql.kind = "series" ->
           [error |-> None, rows |-> [i \in 1..sql.n |-> i]]
      [] sql.kind = "syntax_error" ->
           [error |-> "execute", rows |-> << >>]
      [] sql.kind = "step_error" ->
           [error |-> "fetch", rows |-> << >>]

\* the result handed over whole
Slice_uncapped(rows, n) == rows

\* rows[:n]
Slice(rows, n) == SubSeq(rows, 1, Min(Len(rows), n))

export(d, r, export_format) ==
    LET d1 == dataset_getitem(d, r.table)
        cursor == Cursor(d1, r.table, r.form.sql)
        sent == Sent(<< [stmt |-> "QUERY", sql |-> r.form.sql] >>, 1,
                     cursor.error = None)
        headers == IF export_format = "json"
                   THEN [filename |-> r.table \o "-export.json",
                         mimetype |-> "text/javascript"]
                   ELSE [filename |-> r.table \o "-export.csv",
                         mimetype |-> "text/csv"]
    IN  IF cursor.error # None
        THEN { Outcome(d1, Raised, sent) }
        ELSE { Outcome(d1, make_response(cursor.rows, headers), sent) }

table_query(d, r) ==
    LET sql == r.form.sql
        cursor == Cursor(d, r.table, sql)
        sent == Sent(<< [stmt |-> "QUERY", sql |-> sql] >>, 1,
                     cursor.error = None)
        page(data, error) ==
            render_template(d, "table_query.html", None,
                [data |-> data, error |-> error, sql |-> sql])
    IN  IF r.method = "POST"
        THEN IF "export_json" \in r.form.flags
             THEN export(d, r, "json")
             ELSE IF "export_csv" \in r.form.flags
             THEN export(d, r, "csv")
             ELSE IF cursor.error = "execute"
             THEN { Outcome(d, page(<< >>, "error"), sent) }
             ELSE IF cursor.error = "fetch"
             THEN { Outcome(d, Raised, sent) }
             ELSE { Outcome(d, page(Slice(cursor.rows, MAX_RESULT_SIZE), None),
                            sent) }
        ELSE { Outcome(d,
                 render_template(d, "table_query.html", None,
                     [data |-> << >>, error |-> None,
                      sql |-> [kind |-> "table", n |-> 0]]),
                 << >>) }

\* request.files.get('file') when no file was uploaded
NoFile == [ext |-> None, rows |-> << >>]

RECURSIVE LoadFrom(_, _, _, _, _, _)
\* importer.load(): the rows of the file inserted one by one from row i on.
\* In strict mode a value is converted to the column's type first, which
\* raises for a row of the wrong type.  [ok, db, count, sent]: count rows
\* were inserted, sent rows were taken from the file.
LoadFrom(d, table, rows, strict, i, fault) ==
    IF i > Len(rows)
    THEN [ok |-> TRUE, db |-> d, count |-> Len(rows), sent |-> Len(rows)]
    ELSE IF strict /\ rows[i] = "badtype"
    THEN [ok |-> FALSE, db |-> d, count |-> i - 1, sent |-> i]
    ELSE IF i = fault
    THEN [ok |-> FALSE, db |-> d, count |-> i - 1, sent |-> i]
    ELSE LET x == Exec(d, [stmt |-> "INSERT", table |-> table, row |-> rows[i]])
         IN  IF x.ok THEN LoadFrom(x.db, table, rows, strict, i + 1, fault)
             ELSE [ok |-> FALSE, db |-> d, count |-> i - 1, sent |-> i]

\* dataset.thaw(table, ...)
thaw(d, table, rows, strict) ==
    { LoadFrom(dataset_getitem(d, table), table, rows, strict, 1, fault) :
        fault \in 0..Len(rows) }

\* a transaction scope that keeps what a failed block had written
transaction_without_rollback(d, block) == block.db

\* with dataset.transaction(): commit when the block ends, roll back to the
\* state at entry when it raises
transaction(d, block) == IF block.ok THEN block.db ELSE d

table_import(d, r) ==
    LET strict == r.form.strict
        file_obj == r.form.file
        page(flashed) == render_template(d, "table_import.html", flashed,
                             [strict |-> strict])
        Inserts(l) == Sent([k \in 1..Len(file_obj.rows) |->
                               [stmt |-> "INSERT", table |-> r.table,
                                row |-> file_obj.rows[k]]], l.sent, l.ok)
    IN  IF r.method = "POST"
        THEN IF file_obj = NoFile
             THEN { Outcome(d, page("danger"), << >>) }
             ELSE IF Lower(file_obj.ext) \notin {"csv", "json"}
             THEN { Outcome(d, page("danger"), << >>) }
             ELSE { IF l.ok
                    THEN Outcome(transaction(d, l),
                                 [redirect("table_content", "success")
                                     EXCEPT !.ctx = [count |-> l.count]],
                                 Inserts(l))
                    ELSE Outcome(transaction(d, l), page("danger"), Inserts(l)) :
                    l \in thaw(d, r.table, file_obj.rows, strict) }
        ELSE { Outcome(d, page(None), << >>) }

-----------------------------------------------------------------------------
(* The requests the model sends.  A GET carries no query string; the form  *)
(* fields of a POST are drawn from the sets below.                         *)

TableInputs == {"t", "docs", "docs_content", "nosuch"}

TypeInputs == {None, "TEXT", "BOOL", "bogus"}

IndexColumnInputs == { << >>, << "a" >>, << "id", "a" >>, << "nosuch" >> }

SqlInputs ==
    { [kind |-> "series", n |-> k] :
        k \in {0, MAX_RESULT_SIZE - 1, MAX_RESULT_SIZE, MAX_RESULT_SIZE + 1} }
    \cup { [kind |-> k, n |-> 0] : k \in {"table", "syntax_error", "step_error"} }

RowInputs == {"ok", "badtype", "dup"}

FileRows == UNION { [1..k -> RowInputs] : k \in 0..MaxFileRows }

FileInputs ==
    {NoFile, [ext |-> "txt", rows |-> << >>]}
    \cup { [ext |-> e, rows |-> rs] : e \in {"csv", "JSON"}, rs \in FileRows }

Forms(op, method) ==
    CASE op = "table_structure" -> { << >> }
      [] op = "table_content" -> { [page |-> p] : p \in {None, "2"} }
      [] op = "add_column" ->
           IF method = "GET" THEN { [name |-> "", type |-> None] }
           ELSE { [name |-> n, type |-> y] : n \in {"", "b", "A"}, y \in TypeInputs }
      [] op = "drop_column" ->
           IF method = "GET" THEN { [name |-> ""] }
           ELSE { [name |-> n] : n \in {"", "a", "id", "nosuch"} }
      [] op = "rename_column" ->
           IF method = "GET" THEN { [rename |-> "", rename_to |-> ""] }
           ELSE { [rename |-> n, rename_to |-> m] :
                    n \in {"a", "nosuch"}, m \in {"", "a", "b", "ID"} }
      [] op = "add_index" ->
           IF method = "GET" THEN { [indexed_columns |-> << >>, unique |-> FALSE] }
           ELSE { [indexed_columns |-> c, unique |-> u] :
                    c \in IndexColumnInputs, u \in BOOLEAN }
      [] op = "drop_index" ->
           IF method = "GET" THEN { [name |-> ""] }
           ELSE { [name |-> n] :
                    n \in {"", "t_id", "sqlite_autoindex_t_1", "nosuch"} }
      [] op = "drop_trigger" ->
           IF method = "GET" THEN { [name |-> ""] }
           ELSE { [name |-> n] : n \in {"", "trg", "nosuch"} }
      [] op = "table_query" ->
           IF method = "GET" THEN { << >> }
           ELSE { [sql |-> q, flags |-> f] :
                    q \in SqlInputs, f \in SUBSET {"export_json", "export_csv"} }
      [] op = "table_import" ->
           IF method = "GET" THEN { [file |-> NoFile, strict |-> FALSE] }
           ELSE { [file |-> f, strict |-> b] : f \in FileInputs, b \in BOOLEAN }
      [] op = "drop_table" -> { << >> }

\* the routes and the methods each accepts
Methods(op) ==
    IF op \in {"table_structure", "table_content"} THEN {"GET"}
    ELSE {"GET", "POST"}

Views == {"table_structure", "table_content", "add_column", "drop_column",
          "rename_column", "add_index", "drop_index", "drop_trigger",
          "table_query", "table_import", "drop_table"}

Requests ==
    UNION { UNION { { [op |-> op, table |-> t, method |-> m, form |-> f] :
                        t \in TableInputs, f \in Forms(op, m) } :
                    m \in Methods(op) } :
            op \in Views }

NoRequest == [op |-> None, table |-> None, method |-> None, form |-> << >>]

-----------------------------------------------------------------------------
(* The request life cycle *)

\* the last request added no column
NoneAdded == [table |-> None, name |-> None, columns |-> << >>]

Init ==
    /\ db = InitialDb
    /\ conn = "closed"
    /\ pc = "idle"
    /\ req = NoRequest
    /\ resp = NoResponse
    /\ log = << >>
    /\ pre = InitialDb
    /\ nreq = 0
    /\ added = NoneAdded

\* @app.before_request: dataset.connect()
_connect_db(c) == "open"

\* a teardown that leaves the connection as it is
_close_db_skipped(c) == c

\* @app.teardown_request: closes the connection unless it is closed
_close_db(c) == IF c # "closed" THEN "closed" ELSE c

\* a request arrives and the connection is opened for it
BeginRequest ==
    /\ pc = "idle"
    /\ nreq < MaxRequests
    /\ \E r \in Requests : req' = r
    /\ conn' = _connect_db(conn)
    /\ pc' = "view"
    /\ resp' = NoResponse
    /\ log' = << >>
    /\ pre' = db
    /\ nreq' = nreq + 1
    /\ UNCHANGED <<db, added>>

\* a request arrives and dataset.connect() raises: the view does not run
ConnectFails ==
    /\ pc = "idle"
    /\ nreq < MaxRequests
    /\ \E r \in Requests : req' = r
    /\ pc' = "teardown"
    /\ resp' = Raised
    /\ log' = << >>
    /\ pre' = db
    /\ nreq' = nreq + 1
    /\ UNCHANGED <<db, conn, added>>

\* the view function of the route runs to its response
Serve(op, outcomes) ==
    /\ pc = "view"
    /\ req.op = op
    /\ \E o \in outcomes :
          /\ db' = o.db
          /\ resp' = o.resp
          /\ log' = o.log
    /\ pc' = "teardown"
    /\ UNCHANGED <<conn, req, pre, nreq, added>>

TableStructure ==
    Serve("table_structure", require_table(db, req.table, table_structure(db, req)))
TableContent ==
    Serve("table_content", require_table(db, req.table, table_content(db, req)))
AddColumnView ==
    Serve("add_column", require_table(db, req.table, add_column(db, req)))
DropColumnView ==
    Serve("drop_column", require_table(db, req.table, drop_column(db, req)))
RenameColumnView ==
    Serve("rename_column", require_table(db, req.table, rename_column(db, req)))
AddIndexView ==
    Serve("add_index", require_table(db, req.table, add_index(db, req)))
DropIndexView ==
    Serve("drop_index", require_table(db, req.table, drop_index(db, req)))
DropTriggerView ==
    Serve("drop_trigger", require_table(db, req.table, drop_trigger(db, req)))
TableQuery ==
    Serve("table_query", require_table(db, req.table, table_query(db, req)))
TableImport ==
    Serve("table_import", require_table(db, req.table, table_import(db, req)))
DropTableView ==
    Serve("drop_table", require_table(db, req.table, drop_table(db, req)))

\* the request ends, on whatever path: teardown_request runs
Teardown ==
    /\ pc = "teardown"
    /\ conn' = _close_db(conn)
    /\ pc' = "sent"
    /\ UNCHANGED <<db, req, resp, log, pre, nreq, added>>

\* the response has gone out and the server waits for the next request
Finish ==
    /\ pc = "sent"
    /\ pc' = "idle"
    /\ req' = NoRequest
    /\ resp' = NoResponse
    /\ log' = << >>
    /\ pre' = db
    /\ added' = IF req.op = "add_column" /\ req.method = "POST" /\ resp.status = 302
                THEN [table |-> req.table, name |-> req.form.name,
                      columns |-> get_columns(pre, req.table)]
                ELSE NoneAdded
    /\ UNCHANGED <<db, conn, nreq>>

Next ==
    \/ BeginRequest
    \/ ConnectFails
    \/ TableStructure
    \/ TableContent
    \/ AddColumnView
    \/ DropColumnView
    \/ RenameColumnView
    \/ AddIndexView
    \/ DropIndexView
    \/ DropTriggerView
    \/ TableQuery
    \/ TableImport
    \/ DropTableView
    \/ Teardown
    \/ Finish

Spec == Init /\ [][Next]_vars

-----------------------------------------------------------------------------
(* The column views alone, with every type tag add-column offers *)

ColumnRequests ==
    { [op |-> "add_column", table |-> t, method |-> "POST",
       form |-> [name |-> n, type |-> y]] :
        t \in TableInputs, n \in {"", "b", "A"},
        y \in DOMAIN column_mapping \cup {None, "bogus"} }
    \cup { [op |-> "drop_column", table |-> t, method |-> "POST",
             form |-> [name |-> n]] :
              t \in TableInputs, n \in {"", "a", "b", "A", "nosuch"} }

\* a request to add or to drop a column arrives
BeginColumnRequest ==
    /\ pc = "idle"
    /\ nreq < MaxRequests
    /\ \E r \in ColumnRequests : req' = r
    /\ conn' = _connect_db(conn)
    /\ pc' = "view"
    /\ resp' = NoResponse
    /\ log' = << >>
    /\ pre' = db
    /\ nreq' = nreq + 1
    /\ UNCHANGED <<db, added>>

NextColumns ==
    \/ BeginColumnRequest
    \/ AddColumnView
    \/ DropColumnView
    \/ Teardown
    \/ Finish

SpecColumns == Init /\ [][NextColumns]_vars

-----------------------------------------------------------------------------
(* Properties *)

\* the view function of the request has returned or raised
ViewDone == pc = "teardown" /\ conn = "open"

Posted(ops) == ViewDone /\ req.op \in ops /\ req.method = "POST"

\* the engine, or the conversion of an import row, failed during the request
Failed == \E k \in 1..Len(log) : ~log[k].ok

RowCount(d, table) == Len(d.tables[table].rows)

\* C1 (as claimed): a migration the engine fails is reported as an error by
\* the view, never raised out of it, and leaves the column list and the row
\* count of the table as they were before the request.
C1_FailedMigrationReportedAndAtomic ==
    ( /\ Posted({"add_column", "drop_column", "rename_column", "add_index",
                 "drop_index"})
      /\ req.table \in Tables(pre)
      /\ Failed )
    => /\ resp.status # 500
       /\ resp.flash = "danger"
       /\ req.table \in Tables(db)
       /\ get_columns(db, req.table) = get_columns(pre, req.table)
       /\ RowCount(db, req.table) = RowCount(pre, req.table)

ImportRun ==
    /\ Posted({"table_import"})
    /\ req.table \in Tables(pre)
    /\ Lower(req.form.file.ext) \in {"csv", "json"}

\* C2: an import of a .csv or .json file is all-or-nothing.  When a row
\* fails to convert or to insert, the database is exactly as before the
\* request and the view answers with an error message instead of raising;
\* otherwise every row of the file is in the table and their number is
\* reported.
C2_ImportAllOrNothing ==
    ImportRun =>
        IF Failed
        THEN /\ db = pre
             /\ resp.status = 200
             /\ resp.flash = "danger"
        ELSE /\ resp.status = 302
             /\ resp.flash = "success"
             /\ resp.ctx.count = Len(req.form.file.rows)
             /\ RowCount(db, req.table)
                  = RowCount(pre, req.table) + Len(req.form.file.rows)

\* an import whose second row failed after its first row was inserted
C2_Witness ==
    /\ ImportRun
    /\ Len(log) = 2 /\ log[1].ok /\ ~log[2].ok
    /\ db = pre
    /\ resp.flash = "danger"

PlainQuery ==
    /\ Posted({"table_query"})
    /\ req.table \in Tables(pre)
    /\ req.form.flags = {}

\* C3: a query posted without an export flag hands back at most
\* MAX_RESULT_SIZE rows: the first min(result size, MAX_RESULT_SIZE) rows of
\* the result, in result order.
C3_ResultCapped ==
    (PlainQuery /\ resp.status = 200) =>
        LET rows == Cursor(pre, req.table, req.form.sql).rows
            data == resp.ctx.data
        IN  /\ Len(data) <= MAX_RESULT_SIZE
            /\ Len(data) = Min(Len(rows), MAX_RESULT_SIZE)
            /\ \A i \in 1..Len(data) : data[i] = rows[i]

\* a result of more than MAX_RESULT_SIZE rows was cut to MAX_RESULT_SIZE
C3_Witness ==
    /\ PlainQuery
    /\ resp.status = 200
    /\ Len(Cursor(pre, req.table, req.form.sql).rows) > MAX_RESULT_SIZE
    /\ Len(resp.ctx.data) = MAX_RESULT_SIZE

\* C4 (as claimed): an SQL error of a posted query, on the plain path or on
\* an export path, is answered with an error value and an empty result; it
\* is never raised out of the view.
C4_QueryErrorReturned ==
    ( /\ Posted({"table_query"})
      /\ req.table \in Tables(pre)
      /\ Failed )
    => /\ resp.status = 200
       /\ resp.ctx.error # None
       /\ resp.ctx.data = << >>

\* C5: a table-scoped request that names a table the database does not
\* have is answered 404 before the view runs: nothing is sent to the engine
\* and the database is unchanged.
C5_UnknownTableNotFound ==
    (ViewDone /\ req.table \notin Tables(pre)) =>
        /\ resp.status = 404
        /\ log = << >>
        /\ db = pre

\* a POST that names a table that was dropped by an earlier request
C5_Witness ==
    /\ ViewDone
    /\ req.method = "POST"
    /\ req.table \in Tables(InitialDb) \ Tables(pre)
    /\ resp.status = 404

\* the names get_columns would list for the table before the request
NamesBefore == { c.name : c \in Range(pre.tables[req.table].columns) }

\* the ten type tags add-column offers
TypeTags == {"VARCHAR", "TEXT", "INTEGER", "REAL", "BOOL", "BLOB",
             "DATETIME", "DATE", "TIME", "DECIMAL"}

\* the precondition of the posted operation does not hold
PreconditionFails ==
    CASE req.op = "add_column" ->
           req.form.name = "" \/ req.form.type \notin TypeTags
      [] req.op = "drop_column" ->
           req.form.name \notin NamesBefore
      [] req.op = "rename_column" ->
           req.form.rename \notin NamesBefore \/ req.form.rename_to \in NamesBefore
      [] req.op = "drop_index" ->
           req.form.name \notin
               { i.name : i \in { x \in MasterIndexes(pre) : x.tbl_name = req.table } }
      [] req.op = "drop_trigger" ->
           req.form.name \notin
               { g.name : g \in { x \in pre.triggers : x.tbl_name = req.table } }
      [] OTHER -> FALSE

\* C6: add/drop/rename column, drop index and drop trigger, posted with a
\* failing precondition, answer with a validation error, send nothing to
\* the engine and leave the database unchanged.
C6_InvalidRequestTouchesNothing ==
    ( /\ Posted({"add_column", "drop_column", "rename_column", "drop_index",
                 "drop_trigger"})
      /\ req.table \in Tables(pre)
      /\ PreconditionFails )
    => /\ resp.status = 200
       /\ resp.flash = "danger"
       /\ log = << >>
       /\ db = pre

\* a rename onto the name of an existing column was refused
C6_Witness ==
    /\ Posted({"rename_column"})
    /\ req.table \in Tables(pre)
    /\ req.form.rename \in NamesBefore
    /\ req.form.rename_to \in NamesBefore
    /\ resp.flash = "danger"
    /\ db = pre

\* C7 (as claimed): add-index sends CREATE INDEX only for a nonempty list
\* of names of existing columns of the table.
C7_IndexOnlyOnExistingColumns ==
    ( /\ Posted({"add_index"})
      /\ req.table \in Tables(pre)
      /\ \E k \in 1..Len(log) : log[k].q.stmt = "CREATE INDEX" )
    => /\ Len(req.form.indexed_columns) > 0
       /\ Range(req.form.indexed_columns) \subseteq NamesBefore

\* C8 (as claimed): a drop, column, index or import request that names a
\* corollary table of a virtual table leaves that table in place with its
\* columns, rows and indexes as they were.
C8_CorollaryTablesProtected ==
    ( /\ ViewDone
      /\ req.op \in {"drop_table", "add_column", "drop_column", "rename_column",
                     "add_index", "drop_index", "table_import"}
      /\ req.table \in get_corollary_virtual_tables(pre)
      /\ req.table \in Tables(pre) )
    => /\ req.table \in Tables(db)
       /\ db.tables[req.table] = pre.tables[req.table]
       /\ { i \in MasterIndexes(db) : i.tbl_name = req.table }
            = { i \in MasterIndexes(pre) : i.tbl_name = req.table }

\* C9: the connection is open whenever a view runs, and closed whenever a
\* request has ended, whatever the path it ended on.
C9_ConnectionRequestScoped ==
    /\ pc = "view" => conn = "open"
    /\ pc \in {"idle", "sent"} => conn = "closed"

\* a request that ended with an exception of the engine, connection closed
C9_Witness ==
    /\ pc = "sent"
    /\ resp.status = 500
    /\ Failed
    /\ conn = "closed"

IndexesBefore == { i \in MasterIndexes(pre) : i.tbl_name = req.table }

\* C10: the index list of table_structure holds one record per index of
\* the table in the catalog, implicit indexes included with no SQL, each
\* with the index's SQL, columns in index order and uniqueness, in strictly
\* ascending order of name.
C10_IndexListing ==
    ( /\ ViewDone
      /\ req.op = "table_structure"
      /\ req.table \in Tables(pre) )
    => LET listed == resp.ctx.indexes IN
       /\ Len(listed) = Cardinality(IndexesBefore)
       /\ \A i \in IndexesBefore :
             \E k \in 1..Len(listed) :
                 listed[k] = IndexMetadata(i.name, i.sql, i.columns, i.unique)
       /\ \A k \in 1..Len(listed) - 1 : StrLess(listed[k].name, listed[k + 1].name)

\* a listing of three indexes, one implicit and one not unique
C10_Witness ==
    /\ ViewDone
    /\ req.op = "table_structure"
    /\ req.table \in Tables(pre)
    /\ Len(resp.ctx.indexes) >= 3
    /\ \E k \in 1..Len(resp.ctx.indexes) :
          resp.ctx.indexes[k].sql = None /\ resp.ctx.indexes[k].unique
    /\ \E k \in 1..Len(resp.ctx.indexes) : ~resp.ctx.indexes[k].unique

\* C11: a posted add-column that succeeded, followed by a posted
\* drop-column of the same name on the same table that succeeded, leaves
\* get_columns of the table equal to what it was before the add: the same
\* names, declared types, nullability and primary-key flags in the same
\* order.
C11_AddThenDropRestoresColumns ==
    ( /\ Posted({"drop_column"})
      /\ resp.status = 302
      /\ added.table = req.table
      /\ added.name = req.form.name )
    => get_columns(db, req.table) = added.columns

\* a column of a type whose declared type differs from its tag was added
\* to a table and then dropped from it
C11_Witness ==
    /\ Posted({"drop_column"})
    /\ resp.status = 302
    /\ added.table = req.table
    /\ added.name = req.form.name
    /\ \E k \in 1..Len(pre.tables[req.table].columns) :
          /\ pre.tables[req.table].columns[k].name = req.form.name
          /\ pre.tables[req.table].columns[k].type = "DECIMAL(10, 5)"
    /\ get_columns(db, req.table) = added.columns
    /\ get_columns(db, req.table) # get_columns(pre, req.table)

=============================================================================
